---- MODULE Spec2Model ----
(***************************************************************************)
(* Model of src/notetaker.py: a Streamlit page over two SQLite tables,     *)
(* tasks(id, parent_id -> tasks.id ON DELETE CASCADE, title, type, status, *)
(* priority, sort_order, created_at, ...) and notes(id, task_id ->         *)
(* tasks.id ON DELETE CASCADE, ...), opened with PRAGMA foreign_keys = ON. *)
(*                                                                         *)
(* The columns assignee, start_date, due_date and updated_at are written   *)
(* by the code but read by none of the tree logic; they are left out.      *)
(*                                                                         *)
(* Two specifications share the state and the store functions:             *)
(*   Spec       the page itself: every action is one widget handler, with  *)
(*              the arguments the widgets can produce;                     *)
(*   StoreSpec  the store functions that write parent_id, sort_order or    *)
(*              rows (add_item, move_item, delete_item,                    *)
(*              update_children_sort, add_note) called with arbitrary      *)
(*              arguments, unknown ids included.                           *)
(***************************************************************************)
EXTENDS Integers, Sequences, FiniteSets, TLC

\* ----- bounds of the model -----
\* uid() calls made for rows of tasks
MaxItems == 3
\* uid() calls made for rows of notes
MaxNotes == 1
\* largest sort_order the model lets next_sort_order hand out
MaxSort == 2
\* longest ordered_ids handed to update_children_sort when it is called directly
MaxReorder == 2
\* distinct six-character uuid prefixes
Prefixes == 2

\* ----- values -----
\* SQL NULL / Python None in an id column (no uuid is 0)
NULL == 0
\* A uuid is modelled by the serial number of the uid() call that made it; its
\* first six characters (ch[:6], line 360) are a many-to-one image of it, as 24
\* bits are of 122: two uuids may share them.
Head6(id) == id % Prefixes
\* an id uid() never issued
GhostId == MaxItems + 1
TYPE_OPTS == {"section", "task"}
STATUS_OPTS == <<"todo", "doing", "done", "blocked">>
PRIORITY_OPTS == <<"low", "medium", "high", "critical">>
\* the values the modelled user types or selects
TitleInputs == {" ", "A "}
StatusInputs == {STATUS_OPTS[1]}
PriorityInputs == {PRIORITY_OPTS[2], PRIORITY_OPTS[4]}
\* the Add form as it opens: Status index=0, Priority index=1 (lines 237, 239)
StatusDefault == STATUS_OPTS[1]
PriorityDefault == PRIORITY_OPTS[2]
FILTERS == {"All", "Critical", "Medium", "Done"}

VARIABLES tasks, notes, nuid, nnote, last

vars == <<tasks, notes, nuid, nnote, last>>

\* ----- small helpers -----
Max(S) == CHOOSE m \in S : \A x \in S : x <= m

Range(s) == {s[i] : i \in 1..Len(s)}

Ids(T) == {r.id : r \in T}

\* row_map[id] (lines 163, 284)
row_map(T, id) == CHOOSE r \in T : r.id = id

\* str.strip() on the modelled inputs
strip(s) == IF s = " " THEN "" ELSE IF s = "A " THEN "A" ELSE s

\* ----- store functions -----
\* mutant: the connection opened without PRAGMA foreign_keys = ON
ForeignKeyOff(T, ref) == TRUE

\* parent_id REFERENCES tasks(id), enforced because of PRAGMA foreign_keys = ON
ForeignKeyOk(T, ref) == ref = NULL \/ ref \in Ids(T)

\* SELECT COALESCE(MAX(sort_order), -1) ... WHERE parent_id IS ?, plus one
next_sort_order(T, parent_id) ==
    LET S == {r.sort_order : r \in {x \in T : x.parent_id = parent_id}}
    IN  (IF S = {} THEN -1 ELSE Max(S)) + 1

\* INSERT INTO tasks ...; an unknown parent_id raises IntegrityError, no row written
add_item(T, id, title, type_, parent_id, status, priority, created_at) ==
    IF ForeignKeyOk(T, parent_id)
    THEN T \cup {[id |-> id, parent_id |-> parent_id, title |-> strip(title),
                  type |-> type_, status |-> status, priority |-> priority,
                  sort_order |-> next_sort_order(T, parent_id),
                  created_at |-> created_at]}
    ELSE T

\* ON DELETE CASCADE: the ids removed by DELETE FROM tasks WHERE id=?
RECURSIVE Cascade(_, _)
Cascade(T, dead) ==
    LET more == {r.id : r \in {x \in T : x.parent_id \in dead}} \ dead
    IN  IF more = {} THEN dead ELSE Cascade(T, dead \cup more)

DeletedIds(T, item_id) == Cascade(T, {item_id} \cap Ids(T))

\* mutant: the schema without ON DELETE CASCADE on parent_id
delete_item_no_cascade(T, item_id) == {r \in T : r.id # item_id}

delete_item(T, item_id) == {r \in T : r.id \notin DeletedIds(T, item_id)}

\* notes.task_id REFERENCES tasks(id) ON DELETE CASCADE
delete_notes(N, T, item_id) == {n \in N : n.task_id \notin DeletedIds(T, item_id)}

\* mutant: the UPDATE sets parent_id and leaves sort_order as it was
move_item_keep_order(T, item_id, new_parent_id) ==
    IF ForeignKeyOk(T, new_parent_id)
    THEN {IF r.id = item_id THEN [r EXCEPT !.parent_id = new_parent_id] ELSE r : r \in T}
    ELSE T

\* UPDATE tasks SET parent_id=?, sort_order=? WHERE id=?; unknown new parent:
\* IntegrityError, nothing written; unknown item_id: no row matches
move_item(T, item_id, new_parent_id) ==
    IF ForeignKeyOk(T, new_parent_id)
    THEN {IF r.id = item_id
          THEN [r EXCEPT !.parent_id = new_parent_id,
                         !.sort_order = next_sort_order(T, new_parent_id)]
          ELSE r : r \in T}
    ELSE T

\* one UPDATE per element of ordered_ids, in order, idx counted from 0
RECURSIVE update_children_sort_from(_, _, _)
update_children_sort_from(T, ordered_ids, idx) ==
    IF ordered_ids = <<>> THEN T
    ELSE update_children_sort_from(
             {IF r.id = Head(ordered_ids) THEN [r EXCEPT !.sort_order = idx] ELSE r
                 : r \in T},
             Tail(ordered_ids), idx + 1)

\* mutant: enumerate(ordered_ids, 1)
update_children_sort_from_one(T, parent_id, ordered_ids) ==
    update_children_sort_from(T, ordered_ids, 1)

update_children_sort(T, parent_id, ordered_ids) ==
    update_children_sort_from(T, ordered_ids, 0)

\* UPDATE tasks SET title=..., status=..., priority=... WHERE id=:id
update_item_fields(T, item_id, title, status, priority) ==
    {IF r.id = item_id
     THEN [r EXCEPT !.title = strip(title), !.status = status, !.priority = priority]
     ELSE r : r \in T}

\* the section editor passes title only
update_item_title(T, item_id, title) ==
    {IF r.id = item_id THEN [r EXCEPT !.title = strip(title)] ELSE r : r \in T}

\* INSERT INTO notes ...; task_id is NOT NULL and a foreign key: an unknown
\* task_id raises IntegrityError
add_note(N, T, id, task_id) ==
    IF task_id # NULL /\ ForeignKeyOk(T, task_id)
    THEN N \cup {[id |-> id, task_id |-> task_id]}
    ELSE N

\* ----- tree utilities -----
\* ORDER BY parent_id IS NOT NULL, sort_order, created_at (fetch_tasks_df)
FetchBefore(a, b) ==
    LET ka == IF a.parent_id # NULL THEN 1 ELSE 0
        kb == IF b.parent_id # NULL THEN 1 ELSE 0
    IN  \/ ka < kb
        \/ ka = kb /\ a.sort_order < b.sort_order
        \/ ka = kb /\ a.sort_order = b.sort_order /\ a.created_at < b.created_at

RECURSIVE fetch_tasks_df(_)
fetch_tasks_df(T) ==
    IF T = {} THEN <<>>
    ELSE LET m == CHOOSE x \in T : \A y \in T \ {x} : ~FetchBefore(y, x)
         IN  <<m>> \o fetch_tasks_df(T \ {m})

\* df.sort_values(["sort_order", "created_at"]) (build_index)
IndexBefore(a, b) ==
    \/ a.sort_order < b.sort_order
    \/ a.sort_order = b.sort_order /\ a.created_at < b.created_at

RECURSIVE sort_values(_)
sort_values(T) ==
    IF T = {} THEN <<>>
    ELSE LET m == CHOOSE x \in T : \A y \in T \ {x} : ~IndexBefore(y, x)
         IN  <<m>> \o sort_values(T \ {m})

RECURSIVE IdsWhere(_, _)
\* the ids of the rows of a sorted frame whose parent_id is pid, in frame order
IdsWhere(df, pid) ==
    IF df = <<>> THEN <<>>
    ELSE (IF Head(df).parent_id = pid THEN <<Head(df).id>> ELSE <<>>)
             \o IdsWhere(Tail(df), pid)

\* build_index(df)[pid], with index.get(pid, []) for a pid that has no child
build_index(T, pid) == IdsWhere(sort_values(T), pid)

\* ancestors(df, item_id): the loop of lines 165-173. The walk appends one
\* parent_id per row it visits; once it has appended more ids than there are rows
\* it has visited some row twice and the loop never ends.
RECURSIVE ancestors_from(_, _, _)
ancestors_from(T, cur, out) ==
    IF Len(out) > Cardinality(T) THEN [ends |-> FALSE, out |-> out]
    ELSE IF cur \notin Ids(T) THEN [ends |-> TRUE, out |-> out]
    ELSE LET pid == row_map(T, cur).parent_id
         IN  IF pid = NULL THEN [ends |-> TRUE, out |-> out]
             ELSE ancestors_from(T, pid, Append(out, pid))

ancestors(T, item_id) == ancestors_from(T, item_id, <<>>)

\* breadcrumb(df, item_id): the same walk over titles, root first
RECURSIVE breadcrumb_from(_, _, _)
breadcrumb_from(T, cur, parts) ==
    IF Len(parts) > Cardinality(T) THEN [ends |-> FALSE, out |-> parts]
    ELSE IF cur \notin Ids(T) THEN [ends |-> TRUE, out |-> parts]
    ELSE LET row == row_map(T, cur)
             more == <<row.title>> \o parts
         IN  IF row.parent_id = NULL THEN [ends |-> TRUE, out |-> more]
             ELSE breadcrumb_from(T, row.parent_id, more)

breadcrumb(T, item_id) == breadcrumb_from(T, item_id, <<>>)

\* ----- the page: filter, visibility, render pass -----
\* the rows the chosen filter keeps (lines 270-276)
filtered(T, filter_choice) ==
    IF filter_choice = "Critical" THEN {r \in T : r.priority = "critical"}
    ELSE IF filter_choice = "Medium" THEN {r \in T : r.priority = "medium"}
    ELSE IF filter_choice = "Done" THEN {r \in T : r.status = "done"}
    ELSE T

\* visible_ids (lines 268-280): ends is FALSE when some ancestors() call never returns
visible_ids(T, filter_choice) ==
    IF filter_choice = "All" THEN [ends |-> TRUE, ids |-> Ids(T)]
    ELSE LET hit == Ids(filtered(T, filter_choice))
         IN  [ends |-> \A tid \in hit : ancestors(T, tid).ends,
              ids |-> hit \cup UNION {Range(ancestors(T, tid).out) : tid \in hit}]

\* descendants_have_visible(section_id), as the loop over the stack runs it
RECURSIVE have_visible_from(_, _, _)
have_visible_from(T, V, stack) ==
    IF stack = <<>> THEN FALSE
    ELSE LET cur == stack[Len(stack)]
             kids == build_index(T, cur)
         IN  IF \E i \in 1..Len(kids) : kids[i] \in V THEN TRUE
             ELSE have_visible_from(T, V, SubSeq(stack, 1, Len(stack) - 1) \o kids)

descendants_have_visible(T, V, section_id) == have_visible_from(T, V, <<section_id>>)

\* render_subtree(parent_id): the ids whose row is drawn, in drawing order.
\* Sections first, each followed by its own subtree; then tasks. A task's
\* children are never visited: the recursion is under "for cid in sects" only.
RECURSIVE render_list(_, _, _, _)
render_subtree(T, V, parent_id) ==
    LET children == build_index(T, parent_id)
        sects == SelectSeq(children, LAMBDA cid : row_map(T, cid).type = "section")
        tsks == SelectSeq(children, LAMBDA cid : row_map(T, cid).type = "task")
    IN  render_list(T, V, sects, TRUE) \o render_list(T, V, tsks, FALSE)

render_list(T, V, cids, is_sects) ==
    IF cids = <<>> THEN <<>>
    ELSE LET cid == Head(cids)
             shown == IF is_sects
                      THEN cid \in V \/ descendants_have_visible(T, V, cid)
                      ELSE cid \in V
             here == IF ~shown THEN <<>>
                     ELSE IF is_sects THEN <<cid>> \o render_subtree(T, V, cid)
                     ELSE <<cid>>
         IN  here \o render_list(T, V, Tail(cids), is_sects)

\* The script reaches the grid only if every breadcrumb() call of the Add form
\* (lines 247-250) returns.
PageLoads(T) == \A r \in T : breadcrumb(T, r.id).ends

\* the rows drawn by render_subtree(None, 0) under a filter
Drawn(T, filter_choice) == render_subtree(T, visible_ids(T, filter_choice).ids, NULL)

\* the rows that carry buttons under some choice of the filter
DrawnIds(T) == UNION {Range(Drawn(T, filter_choice)) : filter_choice \in FILTERS}

\* parent_choices / id_map (lines 245-252, 332-340, 402-410): one entry per row
\* other than skip, keyed by its breadcrumb; a later row with the same breadcrumb
\* replaces an earlier one in the map.
ParentChoices(T, skip) ==
    LET df == fetch_tasks_df(T)
        offered == {i \in 1..Len(df) : df[i].id # skip}
    IN  {NULL} \cup
        {df[i].id : i \in {k \in offered :
             ~\E j \in offered :
                 j > k /\ breadcrumb(T, df[j].id).out = breadcrumb(T, df[k].id).out}}

\* the label of a child in the drag list (line 360)
SortLabel(T, ch) == <<row_map(T, ch).type, row_map(T, ch).title, Head6(ch)>>

\* id_by_label[lbl]: the last child carrying that label (lines 357-362)
id_by_label(T, child_ids, lbl) ==
    child_ids[Max({i \in 1..Len(child_ids) : SortLabel(T, child_ids[i]) = lbl})]

\* ----- state -----
\* last: the most recent handler or call, its arguments and the error it ended
\* with ("" for none); and two facts about the store before it ran: the number of
\* rows of tasks, and the parent_id of the row the call names.
Op(op, id, parent, ids, err) ==
    [op |-> op, id |-> id, parent |-> parent, ids |-> ids, err |-> err,
     rows_before |-> Cardinality(tasks),
     parent_before |-> IF id \in Ids(tasks) THEN row_map(tasks, id).parent_id ELSE NULL]

\* uid() for a new row of tasks, and now() for its created_at: both fresh
NewId == nuid + 1

Init ==
    /\ tasks = {}
    /\ notes = {}
    /\ nuid = 0
    /\ nnote = 0
    /\ last = [op |-> "init", id |-> NULL, parent |-> NULL, ids |-> <<>>,
               err |-> "", rows_before |-> 0, parent_before |-> NULL]

\* ----- the page's handlers -----
\* "Add" (lines 254-260)
AddButton ==
    /\ PageLoads(tasks)
    /\ nuid < MaxItems
    /\ \E title_new \in TitleInputs, type_new \in TYPE_OPTS,
          status_new \in StatusInputs, priority_new \in PriorityInputs,
          sel_parent_id \in ParentChoices(tasks, NULL), id \in {NewId} :
          IF strip(title_new) = ""
          THEN /\ last' = Op("add", NULL, sel_parent_id, <<>>, "Title is required.")
               /\ UNCHANGED <<tasks, notes, nuid, nnote>>
          ELSE /\ next_sort_order(tasks, sel_parent_id) <= MaxSort
               /\ tasks' = add_item(tasks, id, title_new, type_new, sel_parent_id,
                                    status_new, priority_new, nuid + 1)
               /\ nuid' = nuid + 1
               /\ last' = Op("add", id, sel_parent_id, <<>>, "")
               /\ UNCHANGED <<notes, nnote>>

\* the delete button of a drawn row (lines 328-330, 397-399)
DeleteButton ==
    /\ PageLoads(tasks)
    /\ \E cid \in DrawnIds(tasks) :
          /\ tasks' = delete_item(tasks, cid)
          /\ notes' = delete_notes(notes, tasks, cid)
          /\ last' = Op("delete", cid, NULL, <<>>, "")
          /\ UNCHANGED <<nuid, nnote>>

\* "Move" of a drawn row (lines 332-343, 402-413)
MoveButton ==
    /\ PageLoads(tasks)
    /\ \E cid \in DrawnIds(tasks) :
       \E new_parent_id \in ParentChoices(tasks, cid) :
          /\ next_sort_order(tasks, new_parent_id) <= MaxSort
          /\ tasks' = move_item(tasks, cid, new_parent_id)
          /\ last' = Op("move", cid, new_parent_id, <<>>, "")
          /\ UNCHANGED <<notes, nuid, nnote>>

\* "Save" in a section's editor (lines 345-351): a blank title is ignored
EditSectionSave ==
    /\ PageLoads(tasks)
    /\ \E cid \in DrawnIds(tasks) :
       \E new_title \in TitleInputs :
          /\ row_map(tasks, cid).type = "section"
          /\ strip(new_title) # ""
          /\ tasks' = update_item_title(tasks, cid, new_title)
          /\ last' = Op("update", cid, NULL, <<>>, "")
          /\ UNCHANGED <<notes, nuid, nnote>>

\* "Save" in a task's editor (lines 416-447). The code does not check the title
\* here; the modelled user leaves a title that is not blank.
EditTaskSave ==
    /\ PageLoads(tasks)
    /\ \E cid \in DrawnIds(tasks) :
       \E et_title \in {t \in TitleInputs : strip(t) # ""}, et_status \in StatusInputs,
          et_priority \in PriorityInputs :
          /\ row_map(tasks, cid).type = "task"
          /\ tasks' = update_item_fields(tasks, cid, et_title, et_status, et_priority)
          /\ last' = Op("update", cid, NULL, <<>>, "")
          /\ UNCHANGED <<notes, nuid, nnote>>

\* a drag in the list under a drawn section (lines 354-367): sort_items hands
\* back the labels in the order the user left them
SortDrag ==
    /\ PageLoads(tasks)
    /\ \E cid \in DrawnIds(tasks) :
          /\ row_map(tasks, cid).type = "section"
          /\ LET child_ids == build_index(tasks, cid)
                 labels == [i \in 1..Len(child_ids) |-> SortLabel(tasks, child_ids[i])]
             IN  /\ child_ids # <<>>
                 /\ \E perm \in Permutations(1..Len(child_ids)) :
                       LET new_labels == [i \in 1..Len(labels) |-> labels[perm[i]]]
                           new_order_ids == [i \in 1..Len(labels) |->
                                                id_by_label(tasks, child_ids, new_labels[i])]
                       IN  /\ new_labels # labels
                           /\ tasks' = update_children_sort(tasks, cid, new_order_ids)
                           /\ last' = Op("reorder", NULL, cid, new_order_ids, "")
          /\ UNCHANGED <<notes, nuid, nnote>>

\* "Save Note" under a drawn task (lines 383-388): a blank note is ignored
SaveNote ==
    /\ PageLoads(tasks)
    /\ nnote < MaxNotes
    /\ \E cid \in DrawnIds(tasks) :
          /\ row_map(tasks, cid).type = "task"
          /\ notes' = add_note(notes, tasks, nnote + 1, cid)
          /\ nnote' = nnote + 1
          /\ last' = Op("note", cid, NULL, <<>>, "")
          /\ UNCHANGED <<tasks, nuid>>

Next ==
    \/ AddButton
    \/ DeleteButton
    \/ MoveButton
    \/ EditSectionSave
    \/ EditTaskSave
    \/ SortDrag
    \/ SaveNote

Spec == Init /\ [][Next]_vars

\* ----- the store functions, called directly -----
\* the id arguments tried: every stored id and one that is not stored
ArgIds(T) == Ids(T) \cup {GhostId}

\* every sequence over S of length at most n
SeqsUpTo(S, n) == UNION {[1..k -> S] : k \in 0..n}

\* title, type, status and priority are data to the store: one value of each
CallAddItem ==
    /\ nuid < MaxItems
    /\ \E title \in {"A "}, type_ \in {"section"}, parent_id \in ArgIds(tasks) \cup {NULL} :
          /\ next_sort_order(tasks, parent_id) <= MaxSort
          /\ tasks' = add_item(tasks, NewId, title, type_, parent_id,
                               StatusDefault, PriorityDefault, nuid + 1)
          /\ IF ForeignKeyOk(tasks, parent_id)
             THEN /\ nuid' = nuid + 1
                  /\ last' = Op("add", NewId, parent_id, <<>>, "")
             ELSE /\ nuid' = nuid
                  /\ last' = Op("add", NULL, parent_id, <<>>, "IntegrityError")
          /\ UNCHANGED <<notes, nnote>>

CallDeleteItem ==
    \E item_id \in ArgIds(tasks) :
       /\ tasks' = delete_item(tasks, item_id)
       /\ notes' = delete_notes(notes, tasks, item_id)
       /\ last' = Op("delete", item_id, NULL, <<>>, "")
       /\ UNCHANGED <<nuid, nnote>>

CallMoveItem ==
    \E item_id \in ArgIds(tasks), new_parent_id \in ArgIds(tasks) \cup {NULL} :
       /\ next_sort_order(tasks, new_parent_id) <= MaxSort
       /\ tasks' = move_item(tasks, item_id, new_parent_id)
       /\ last' = Op("move", item_id, new_parent_id, <<>>,
                     IF ForeignKeyOk(tasks, new_parent_id) THEN "" ELSE "IntegrityError")
       /\ UNCHANGED <<notes, nuid, nnote>>

CallUpdateChildrenSort ==
    \E ordered_ids \in SeqsUpTo(ArgIds(tasks), MaxReorder) :
    \E parent_id \in {NULL} \cup {r.parent_id : r \in {x \in tasks : x.id \in Range(ordered_ids)}} :
       /\ tasks' = update_children_sort(tasks, parent_id, ordered_ids)
       /\ last' = Op("reorder", NULL, parent_id, ordered_ids, "")
       /\ UNCHANGED <<notes, nuid, nnote>>

CallAddNote ==
    /\ nnote < MaxNotes
    /\ \E task_id \in ArgIds(tasks) :
          /\ notes' = add_note(notes, tasks, nnote + 1, task_id)
          /\ IF ForeignKeyOk(tasks, task_id)
             THEN /\ nnote' = nnote + 1
                  /\ last' = Op("note", task_id, NULL, <<>>, "")
             ELSE /\ nnote' = nnote
                  /\ last' = Op("note", task_id, NULL, <<>>, "IntegrityError")
          /\ UNCHANGED <<tasks, nuid>>

StoreNext ==
    \/ CallAddItem
    \/ CallDeleteItem
    \/ CallMoveItem
    \/ CallUpdateChildrenSort
    \/ CallAddNote

StoreSpec == Init /\ [][StoreNext]_vars

\* ----- the hierarchy, stated without the code's walks -----
\* the parent_ids of the rows named by S
ParentsOf(T, S) == {r.parent_id : r \in {x \in T : x.id \in S}} \ {NULL}

RECURSIVE UpClosure(_, _)
UpClosure(T, S) ==
    LET more == ParentsOf(T, S) \ S
    IN  IF more = {} THEN S ELSE UpClosure(T, S \cup more)

\* every id reached from item_id by one or more parent_id steps
AncestorSet(T, item_id) == UpClosure(T, ParentsOf(T, {item_id}))

\* item_id and every stored row below it
Subtree(T, item_id) == {item_id} \cup {r.id : r \in {x \in T : item_id \in AncestorSet(T, x.id)}}

ChildSet(T, pid) == {r.id : r \in {x \in T : x.parent_id = pid}}

NoRepeat(s) == \A i, j \in 1..Len(s) : i # j => s[i] # s[j]

\* ordered_ids lists each current child of parent_id once and nothing else
ExactlyChildren(T, parent_id, ordered_ids) ==
    NoRepeat(ordered_ids) /\ Range(ordered_ids) = ChildSet(T, parent_id)

Occurrences(s, x) == Cardinality({i \in 1..Len(s) : s[i] = x})

\* ----- claims -----
\* C1: move(id, new_parent_id) with new_parent_id equal to id or a descendant of
\* id is rejected with a CycleError and leaves every row of tasks as it was.
C1_CyclicMoveRejected ==
    [][(/\ last'.op = "move"
        /\ last'.id \in Ids(tasks)
        /\ last'.parent \in Subtree(tasks, last'.id))
       => (last'.err = "CycleError" /\ tasks' = tasks)]_vars

\* C2: in every reachable state the parent/child relation is acyclic: for every
\* stored item the ancestors walk ends, and its chain has no repeated id and
\* does not contain the item itself.
C2_Acyclic ==
    \A r \in tasks :
        LET a == ancestors(tasks, r.id)
        IN  a.ends /\ NoRepeat(a.out) /\ r.id \notin Range(a.out)

\* C3: delete(id) of a stored item removes exactly the item, its transitive
\* descendants and the notes attached to them, and nothing else; the number of
\* items drops by the size of the subtree.
C3_DeleteRemovesSubtree ==
    [][(last'.op = "delete" /\ last'.id \in Ids(tasks))
       => LET gone == Subtree(tasks, last'.id)
          IN  /\ tasks' = {r \in tasks : r.id \notin gone}
              /\ notes' = {n \in notes : n.task_id \notin gone}
              /\ Cardinality(tasks') = Cardinality(tasks) - Cardinality(gone)]_vars

\* a delete took a subtree of two or more rows and left a row and a note behind
C3_Witness ==
    /\ last.op = "delete"
    /\ last.rows_before - Cardinality(tasks) >= 2
    /\ tasks # {}
    /\ notes # {}

\* C4: every stored parent_id is NULL or the id of a stored item, also after a
\* create or a move that named an unknown parent (which writes nothing).
C4_NoDanglingParent ==
    \A r \in tasks : r.parent_id = NULL \/ r.parent_id \in Ids(tasks)

\* a create or a move named an unknown parent and was refused
C4_Witness ==
    /\ last.op \in {"add", "move"}
    /\ last.parent \notin Ids(tasks) \cup {NULL}
    /\ last.err = "IntegrityError"
    /\ tasks # {}

\* C5: reorder(parent_id, ordered_ids) with ordered_ids not exactly the current
\* children of parent_id fails with a ValidationError and changes no sort_order.
C5_MalformedReorderRejected ==
    [][(last'.op = "reorder" /\ ~ExactlyChildren(tasks, last'.parent, last'.ids))
       => (last'.err = "ValidationError" /\ tasks' = tasks)]_vars

\* C6: after reorder(parent, p) with p a permutation of the parent's children,
\* the children carry sort_order 0..n-1 in the order of p and build_index lists
\* them in exactly that order.
C6_ReorderGivesOrder ==
    (last.op = "reorder" /\ ExactlyChildren(tasks, last.parent, last.ids))
    => /\ build_index(tasks, last.parent) = last.ids
       /\ \A i \in 1..Len(last.ids) : row_map(tasks, last.ids[i]).sort_order = i - 1

\* a reorder put a later-created child before an earlier-created one
C6_Witness ==
    /\ last.op = "reorder"
    /\ ExactlyChildren(tasks, last.parent, last.ids)
    /\ Len(last.ids) >= 2
    /\ last.ids[1] > last.ids[2]
    /\ Cardinality(tasks) > Len(last.ids)

\* C7: in every reachable state no two distinct items with the same parent_id
\* hold the same sort_order.
C7_SiblingSortUnique ==
    \A r, q \in tasks :
        (r # q /\ r.parent_id = q.parent_id) => r.sort_order # q.sort_order

\* C8: after move(T, B) of an item T under parent A to a different existing
\* parent B, build_index no longer lists T under A and lists it last under B,
\* with a sort_order above that of every other child of B; no other row changes.
C8_MoveAppends ==
    [][(/\ last'.op = "move"
        /\ last'.err = ""
        /\ last'.id \in Ids(tasks)
        /\ last'.parent # row_map(tasks, last'.id).parent_id)
       => LET T == last'.id
              A == row_map(tasks, T).parent_id
              B == last'.parent
              kids == build_index(tasks', B)
          IN  /\ Occurrences(build_index(tasks', A), T) = 0
              /\ kids # <<>>
              /\ kids[Len(kids)] = T
              /\ Occurrences(kids, T) = 1
              /\ \A c \in ChildSet(tasks', B) \ {T} :
                     row_map(tasks', c).sort_order < row_map(tasks', T).sort_order
              /\ {r \in tasks' : r.id # T} = {r \in tasks : r.id # T}
              /\ Ids(tasks') = Ids(tasks)]_vars

\* an item was moved from one parent to another that already had a child
C8_Witness ==
    /\ last.op = "move"
    /\ last.err = ""
    /\ last.id \in Ids(tasks)
    /\ last.parent # last.parent_before
    /\ last.parent # last.id
    /\ Cardinality(ChildSet(tasks, last.parent)) >= 2

\* C9: for every filter, the visible set is computed and holds exactly the
\* matching items and all their ancestors.
C9_FilterClosure ==
    \A filter_choice \in FILTERS \ {"All"} :
        LET v == visible_ids(tasks, filter_choice)
            hit == Ids(filtered(tasks, filter_choice))
        IN  /\ v.ends
            /\ v.ids = hit \cup UNION {AncestorSet(tasks, m) : m \in hit}

\* C10: under the filter All, render_subtree(None) draws every stored item
\* exactly once.
C10_EveryItemDrawnOnce ==
    \A r \in tasks : Occurrences(Drawn(tasks, "All"), r.id) = 1

====
